---- MODULE Spec2Model ----
(***************************************************************************)
(* A model of the Dontpullup recovery utilities.                           *)
(*                                                                         *)
(*   merge_files.py         merge_files(): two source trees (Music first,  *)
(*                          Recovery second) merged into one destination.  *)
(*   compare_code_files.py  collect_swift_files, build_content_groups,     *)
(*                          build_conflict_groups and the two CSV writers. *)
(*   extract_files.py       extract_swift_from_json, find_latest_backup,   *)
(*                          get_output_path.                               *)
(*   extract_file.py        the one-file extraction script.                *)
(*   compare_and_merge.py   load_file_list and interactive_menu.           *)
(*                                                                         *)
(* Spec        merge_files run on sources nobody else touches.             *)
(* SpecRace    merge_files run while another process deletes or protects   *)
(*             a source file after the glob.                               *)
(* SpecCompare the scan-and-report pipeline of compare_code_files.main.    *)
(* SpecExtract the snapshot extraction of extract_files.py and             *)
(*             extract_file.py on one snapshot file.                       *)
(* SpecScan    compare_code_files.main on trees with missing roots and     *)
(*             files whose hashing raises.                                 *)
(* SpecClassify get_output_path on every file name.                        *)
(* SpecBackup  find_latest_backup on the backup directories.               *)
(* SpecMenu    compare_and_merge.py with a user typing at its prompts.     *)
(***************************************************************************)
EXTENDS Integers, Sequences, FiniteSets, TLC

----------------------------------------------------------------------------
(* Bounds of the model.                                                    *)

\* Source files carry a modification time in 1..MaxTime.
MaxTime == 2

\* merge_files is run up to MaxRuns times in a row.
MaxRuns == 2

\* Another process interferes with the sources at most this often.
MaxInterference == 1

\* The relative paths of the *.swift files, in ascending string order.
PathOrder == <<"App/a.swift", "Views/b.swift">>

RelPaths == {PathOrder[k] : k \in 1..Len(PathOrder)}

\* The file contents that occur.
Contents == {"1", "2"}

\* The configured locations hold at most MaxFiles *.swift files together.
MaxFiles == 5

\* A snapshot holds at most MaxChunks chunks.
MaxChunks == 2

\* A chunk's range.start is in 0..MaxStart.
MaxStart == 2

\* A snapshot file that is not a JSON object holds at most MaxText characters.
MaxText == 3

\* The number of files in the scan of trees with missing roots and
\* unhashable files.
MaxScanFiles == 2

\* The number of configured roots that are no directories.
MaxMissing == 1

\* The number of files whose hashing raises.
MaxUnhashable == 1

\* A file name is made of up to MaxWords words.
MaxWords == 3

\* The backup directories hold up to MaxBackups snapshot files.
MaxBackups == 3

\* The modification times of snapshot files are in 1..MaxMtime.
MaxMtime == 2

\* The calls of load_file_list that may be nested before the interpreter
\* raises RecursionError.
RecursionLimit == 3

\* The numbers a user types are in -1..MaxNumber.
MaxNumber == 8

\* A line of location numbers holds up to MaxLocNums numbers.
MaxLocNums == 2

----------------------------------------------------------------------------
(* Files and trees.                                                        *)

\* The entry of a path that holds no file.
NoFile == [content |-> "", mtime |-> 0]

File(c, t) == [content |-> c, mtime |-> t]

SourceFiles == {File(c, t) : c \in Contents, t \in 1..MaxTime}

Exists(f) == f # NoFile

\* glob.glob(os.path.join(root, "**", "*.swift"), recursive=True) followed by
\* os.path.relpath: the relative paths of the files of a tree.
Glob(tree) == {p \in RelPaths : Exists(tree[p])}

\* The orders in which glob may list a set of paths (glob does not sort).
Orders(S) == {s \in [1..Cardinality(S) -> S] : \A a, b \in 1..Cardinality(S) : a # b => s[a] # s[b]}

\* shutil.copyfile: the destination gets the source's bytes and is stamped
\* with the time of the write.
CopyFile(src, now) == [content |-> src.content, mtime |-> now]

\* shutil.copystat: the destination gets the source's modification time.
CopyStat(dst, src) == [dst EXCEPT !.mtime = src.mtime]

\* shutil.copy, which copies the bytes and leaves the time of the write.
CopyNoStat(src, now) == CopyFile(src, now)

\* shutil.copy2(src_path, dst_path): copyfile, then copystat.
Copy2(src, now) == CopyStat(CopyFile(src, now), src)

\* The comparison of line 63 with equal times counted as newer.
NewerOrEqual(recovery_mtime, music_mtime) == recovery_mtime >= music_mtime

\* if recovery_mtime > music_mtime (line 63).
IsNewer(recovery_mtime, music_mtime) == recovery_mtime > music_mtime

\* A loop body that forgets to mark the path.
NotMarked(processed, rel_path) == processed

\* processed_files.add(rel_path) (lines 47 and 78).
MarkProcessed(processed, rel_path) == processed \cup {rel_path}

----------------------------------------------------------------------------
VARIABLES
  music,            \* the tree under music_dir: path -> file
  recovery,         \* the tree under recovery_dir
  merged,           \* the tree under merged_dir
  unreadable,       \* source files whose bytes cannot be read: <<root, path>>
  pc,               \* where merge_files is
  music_files,      \* the list globbed from music_dir
  recovery_files,   \* the list globbed from recovery_dir
  idx,              \* the position of the running for loop in its list
  processed_files,  \* the set processed_files
  report,           \* the lines printed by the two loops: <<kind, rel_path>>
  run,              \* the number of the current run of merge_files
  last_tree,        \* merged as the previous run left it
  last_report,      \* the report of the previous run
  interfered,       \* how often another process touched the sources
  disk,             \* the trees of LOCATIONS: <<location, path>> -> content
  roots,            \* the locations whose root is a directory
  unhashable,       \* the files whose hashing raises: <<location, path>>
  cpc,              \* where main() of compare_code_files is
  records,          \* the list collect_swift_files returned
  dups,             \* the dict build_content_groups returned
  conflicts,        \* the dict build_conflict_groups returned
  duplicates_csv,   \* the rows of duplicates_by_content.csv
  conflicts_csv,    \* the rows of conflicts_by_path.csv
  snapshot,         \* raw_data: what the snapshot file holds
  ran,              \* the extractions that have run on the snapshot
  swift_code,       \* what extract_swift_from_json returned
  output_file,      \* what extract_file.py wrote to output_file
  filename,         \* the file name given to get_output_path
  output_path,      \* what get_output_path returned
  cache,            \* the snapshot files in backup_dirs: file -> mtime
  wanted,           \* the file name given to find_latest_backup
  latest,           \* what find_latest_backup returned
  trees,            \* compare_and_merge: <<location, path>> -> the file exists
  csv_file,         \* file_comparison_list.csv
  file_list,        \* file_list of interactive_menu
  mpc,              \* where compare_and_merge is: the prompt it waits at
  depth,            \* the nested calls of load_file_list
  runs,             \* the runs of compare_files.py started by load_file_list
  typed,            \* the line the last input() returned, split at its commas
  printed,          \* the messages printed since that line was read
  file_path,        \* file_path of the running menu function
  file_num,         \* file_num of bulk_compare_critical_files
  selected_locs,    \* selected_locs of compare_specific_file
  src_name          \* src_name of copy_file_between_locations

mergeVars == <<music, recovery, merged, unreadable, pc, music_files, recovery_files, idx, processed_files, report, run, last_tree, last_report, interfered>>

compareVars == <<disk, roots, unhashable, cpc, records, dups, conflicts, duplicates_csv, conflicts_csv>>

extractVars == <<snapshot, ran, swift_code, output_file>>

classifyVars == <<filename, output_path>>

backupVars == <<cache, wanted, latest>>

\* The variables of the other scripts.
menuVars == <<trees, csv_file, file_list, mpc, depth, runs, typed, printed, file_path, file_num, selected_locs, src_name>>

restVars == <<extractVars, classifyVars, backupVars, menuVars>>

vars == <<mergeVars, compareVars, restVars>>

\* The wall clock of a run: later than every source file's time, later in
\* every run.
Now == MaxTime + run

\* The line printed for a file.
Entry(kind, rel_path) == <<kind, rel_path>>

\* The state before merge_files runs on the source trees m and r: the
\* destination holds the directories made at import time (lines 14-18) and
\* no file.
MergeStartsWith(m, r) ==
  /\ music = m
  /\ recovery = r
  /\ merged = [p \in RelPaths |-> NoFile]
  /\ unreadable = {}
  /\ pc = "start"
  /\ music_files = <<>>
  /\ recovery_files = <<>>
  /\ idx = 1
  /\ processed_files = {}
  /\ report = <<>>
  /\ run = 1
  /\ last_tree = [p \in RelPaths |-> NoFile]
  /\ last_report = <<>>
  /\ interfered = 0

\* Both source trees hold any files.
MergeInit ==
  \E m, r \in [RelPaths -> SourceFiles \cup {NoFile}] : MergeStartsWith(m, r)

\* merge_files is not run: the trees it works on are left empty.
MergeIdle ==
  MergeStartsWith([p \in RelPaths |-> NoFile], [p \in RelPaths |-> NoFile])

\* Lines 22-26: processed_files = set() and the two globs.
StartMerge ==
  /\ pc = "start"
  /\ processed_files' = {}
  /\ music_files' \in Orders(Glob(music))
  /\ recovery_files' \in Orders(Glob(recovery))
  /\ idx' = 1
  /\ pc' = "music"
  /\ UNCHANGED <<music, recovery, merged, unreadable, report, run, last_tree, last_report, interfered>>
  /\ UNCHANGED <<compareVars, restVars>>

\* Lines 32-47: one pass of the loop over music_files. copy2 raises when the
\* source is gone or unreadable, and nothing in merge_files catches it.
CopyMusic ==
  /\ pc = "music"
  /\ idx <= Len(music_files)
  /\ LET rel_path == music_files[idx]
         src == music[rel_path]
     IN IF Exists(src) /\ <<"music", rel_path>> \notin unreadable
        THEN /\ merged' = [merged EXCEPT ![rel_path] = Copy2(src, Now)]
             /\ report' = Append(report, Entry("Copied", rel_path))
             /\ processed_files' = MarkProcessed(processed_files, rel_path)
             /\ idx' = idx + 1
             /\ pc' = pc
        ELSE /\ pc' = "aborted"
             /\ UNCHANGED <<merged, report, processed_files, idx>>
  /\ UNCHANGED <<music, recovery, unreadable, music_files, recovery_files, run, last_tree, last_report, interfered>>
  /\ UNCHANGED <<compareVars, restVars>>

\* Line 32 -> line 50: the first loop is exhausted, the second begins.
MusicDone ==
  /\ pc = "music"
  /\ idx > Len(music_files)
  /\ pc' = "recovery"
  /\ idx' = 1
  /\ UNCHANGED <<music, recovery, merged, unreadable, music_files, recovery_files, processed_files, report, run, last_tree, last_report, interfered>>
  /\ UNCHANGED <<compareVars, restVars>>

\* Lines 50-78: one pass of the loop over recovery_files.
MergeRecovery ==
  /\ pc = "recovery"
  /\ idx <= Len(recovery_files)
  /\ LET rel_path == recovery_files[idx]
         src == recovery[rel_path]
         dst == merged[rel_path]
         readable == Exists(src) /\ <<"recovery", rel_path>> \notin unreadable
     IN IF rel_path \in processed_files
        THEN \* lines 60-61: os.path.getmtime raises for a missing file
             IF ~Exists(dst) \/ ~Exists(src)
             THEN /\ pc' = "aborted"
                  /\ UNCHANGED <<merged, report, processed_files, idx>>
             ELSE IF IsNewer(src.mtime, dst.mtime)
                  THEN IF readable
                       THEN /\ merged' = [merged EXCEPT ![rel_path] = Copy2(src, Now)]
                            /\ report' = Append(report, Entry("Updated", rel_path))
                            /\ idx' = idx + 1
                            /\ UNCHANGED <<pc, processed_files>>
                       ELSE /\ pc' = "aborted"
                            /\ UNCHANGED <<merged, report, processed_files, idx>>
                  ELSE /\ report' = Append(report, Entry("Kept", rel_path))
                       /\ idx' = idx + 1
                       /\ UNCHANGED <<pc, merged, processed_files>>
        ELSE IF readable
             THEN /\ merged' = [merged EXCEPT ![rel_path] = Copy2(src, Now)]
                  /\ report' = Append(report, Entry("Added", rel_path))
                  /\ processed_files' = MarkProcessed(processed_files, rel_path)
                  /\ idx' = idx + 1
                  /\ pc' = pc
             ELSE /\ pc' = "aborted"
                  /\ UNCHANGED <<merged, report, processed_files, idx>>
  /\ UNCHANGED <<music, recovery, unreadable, music_files, recovery_files, run, last_tree, last_report, interfered>>
  /\ UNCHANGED <<compareVars, restVars>>

\* Line 80: the second loop is exhausted, merge_files returns.
MergeComplete ==
  /\ pc = "recovery"
  /\ idx > Len(recovery_files)
  /\ pc' = "done"
  /\ UNCHANGED <<music, recovery, merged, unreadable, music_files, recovery_files, idx, processed_files, report, run, last_tree, last_report, interfered>>
  /\ UNCHANGED <<compareVars, restVars>>

\* The script is started again on the same trees.
RunAgain ==
  /\ pc = "done"
  /\ run < MaxRuns
  /\ run' = run + 1
  /\ last_tree' = merged
  /\ last_report' = report
  /\ report' = <<>>
  /\ music_files' = <<>>
  /\ recovery_files' = <<>>
  /\ processed_files' = {}
  /\ idx' = 1
  /\ pc' = "start"
  /\ UNCHANGED <<music, recovery, merged, unreadable, interfered>>
  /\ UNCHANGED <<compareVars, restVars>>

\* Another process removes a source file while merge_files is looping.
ExternalDelete ==
  /\ pc \in {"music", "recovery"}
  /\ interfered < MaxInterference
  /\ interfered' = interfered + 1
  /\ \E p \in RelPaths :
       \/ /\ Exists(music[p])
          /\ music' = [music EXCEPT ![p] = NoFile]
          /\ UNCHANGED recovery
       \/ /\ Exists(recovery[p])
          /\ recovery' = [recovery EXCEPT ![p] = NoFile]
          /\ UNCHANGED music
  /\ UNCHANGED <<merged, unreadable, pc, music_files, recovery_files, idx, processed_files, report, run, last_tree, last_report>>
  /\ UNCHANGED <<compareVars, restVars>>

\* Another process takes the read permission of a source file away.
ExternalProtect ==
  /\ pc \in {"music", "recovery"}
  /\ interfered < MaxInterference
  /\ interfered' = interfered + 1
  /\ \E p \in RelPaths :
       \/ /\ Exists(music[p])
          /\ unreadable' = unreadable \cup {<<"music", p>>}
       \/ /\ Exists(recovery[p])
          /\ unreadable' = unreadable \cup {<<"recovery", p>>}
  /\ UNCHANGED <<music, recovery, merged, pc, music_files, recovery_files, idx, processed_files, report, run, last_tree, last_report>>
  /\ UNCHANGED <<compareVars, restVars>>

----------------------------------------------------------------------------
(* compare_code_files.py                                                   *)

\* The keys of the dict LOCATIONS in its order (lines 36-42).
LOCATIONS == <<"current", "backup", "music", "merged", "recovered">>

LocationNames == {LOCATIONS[k] : k \in 1..Len(LOCATIONS)}

\* The keys of LOCATIONS in ascending string order.
NameOrder == <<"backup", "current", "merged", "music", "recovered">>

\* The place of x in a sequence that holds it once.
IndexIn(seq, x) == CHOOSE k \in 1..Len(seq) : seq[k] = x

\* The entry of disk for a path with no file.
NoContent == ""

\* compute_sha256(file_path): the digest of the file's bytes; different
\* bytes have different digests.
compute_sha256(content) == <<"sha256", content>>

\* abs_path: os.path.join(abs_root, rel_path) of a glob match.
AbsPath(loc_key, rel_path) == <<loc_key, rel_path>>

\* glob.iglob(pattern, recursive=True) with os.path.relpath (lines 71-73).
GlobLocation(d, loc_key) == {p \in RelPaths : d[<<loc_key, p>>] # NoContent}

\* The dropped rest of a location's files: what the loop would not be left
\* to record.
StopScan(rest) == <<>>

\* Line 78: continue, the loop goes on to the files after the one whose
\* hashing raised.
SkipFile(rest) == rest

\* Lines 72-79: the records of one location from the k-th file of its
\* listing on; a file whose hashing raises gets no record.
RECURSIVE LocationRecords(_, _, _, _, _)
LocationRecords(d, bad, loc_key, order, k) ==
  IF k > Len(order)
  THEN <<>>
  ELSE IF <<loc_key, order[k]>> \in bad
       THEN SkipFile(LocationRecords(d, bad, loc_key, order, k + 1))
       ELSE <<<<order[k], loc_key, AbsPath(loc_key, order[k]), compute_sha256(d[<<loc_key, order[k]>>])>>>>
              \o LocationRecords(d, bad, loc_key, order, k + 1)

\* Lines 66-79 from the k-th location on: the lists the loop may build; a
\* location whose root is no directory is passed over (lines 69-70).
RECURSIVE CollectFrom(_, _, _, _)
CollectFrom(d, dirs, bad, k) ==
  IF k > Len(LOCATIONS)
  THEN {<<>>}
  ELSE IF LOCATIONS[k] \notin dirs
       THEN CollectFrom(d, dirs, bad, k + 1)
       ELSE {LocationRecords(d, bad, LOCATIONS[k], o, 1) \o rest :
               o \in Orders(GlobLocation(d, LOCATIONS[k])), rest \in CollectFrom(d, dirs, bad, k + 1)}

\* collect_swift_files(): the lists of (rel_path, loc_key, abs_path, sha) it
\* may return, one for every order in which glob lists each location.
collect_swift_files(d, dirs, bad) == CollectFrom(d, dirs, bad, 1)

\* A dict is the sequence of its <<key, value>> items in insertion order.
Keys(dict) == {dict[k][1] : k \in 1..Len(dict)}

\* dict[key] of a dict that holds key.
Value(dict, key) == dict[CHOOSE k \in 1..Len(dict) : dict[k][1] = key][2]

\* by_hash[key].append(item) on a defaultdict(list) (lines 91 and 99).
DictAppend(dict, key, item) ==
  IF key \in Keys(dict)
  THEN [k \in 1..Len(dict) |-> IF dict[k][1] = key THEN <<key, Append(dict[k][2], item)>> ELSE dict[k]]
  ELSE Append(dict, <<key, <<item>>>>)

\* Lines 89-91: by_hash after the first n records.
RECURSIVE ByHash(_, _)
ByHash(recs, n) ==
  IF n = 0
  THEN <<>>
  ELSE DictAppend(ByHash(recs, n - 1), recs[n][4], <<recs[n][1], recs[n][2], recs[n][3]>>)

\* A filter that keeps every group.
NotEmpty(lst) == Len(lst) > 0

\* len(lst) > 1 (line 92).
MoreThanOne(lst) == Len(lst) > 1

\* build_content_groups(records) (lines 87-92).
build_content_groups(recs) ==
  SelectSeq(ByHash(recs, Len(recs)), LAMBDA g : MoreThanOne(g[2]))

\* Lines 97-99: by_path after the first n records.
RECURSIVE ByPath(_, _)
ByPath(recs, n) ==
  IF n = 0
  THEN <<>>
  ELSE DictAppend(ByPath(recs, n - 1), recs[n][1], <<recs[n][2], recs[n][3], recs[n][4]>>)

\* unique_hashes = {sha for _, _, sha in items} (line 103).
UniqueHashes(items) == {items[k][3] : k \in 1..Len(items)}

\* A test that looks at the first two items only.
FirstTwoDiffer(items) == Len(items) > 1 /\ items[1][3] # items[2][3]

\* A test that counts the items, not their hashes.
SeveralItems(items) == Len(items) > 1

\* len(unique_hashes) > 1 (line 104).
DiffersInCode(items) == Cardinality(UniqueHashes(items)) > 1

\* build_conflict_groups(records) (lines 95-106).
build_conflict_groups(recs) ==
  SelectSeq(ByPath(recs, Len(recs)), LAMBDA g : DiffersInCode(g[2]))

\* sorted(..., key=lambda x: len(x[1]), reverse=True) after the first n
\* items: a stable sort, items of one size keep their order.
RECURSIVE SortBySize(_, _)
SortBySize(items, n) ==
  IF n = 0
  THEN <<>>
  ELSE LET before == SortBySize(items, n - 1)
           g == items[n]
           m == Cardinality({k \in 1..Len(before) : Len(before[k][2]) >= Len(g[2])})
       IN SubSeq(before, 1, m) \o <<g>> \o SubSeq(before, m + 1, Len(before))

\* sorted(groups.items(), key=lambda x: len(x[1]), reverse=True) (line 118).
SortedBySizeDescending(items) == SortBySize(items, Len(items))

\* write_duplicates_csv(groups): the rows written (lines 117-120); the
\* detail column is the list of its "rel | loc" parts.
write_duplicates_csv(groups) ==
  LET sorted == SortedBySizeDescending(groups)
  IN <<(<<"sha256", "count", "details (rel_path | location)">>)>> \o
     [k \in 1..Len(sorted) |->
        <<sorted[k][1], Len(sorted[k][2]),
          [j \in 1..Len(sorted[k][2]) |-> <<sorted[k][2][j][1], sorted[k][2][j][2]>>]>>]

\* The place of a relative path in the order of strings.
PathRank(p) == IndexIn(PathOrder, p)

\* sorted(conflicts.items()) after the first n items: the items are
\* compared by their key, and no two items of a dict share a key.
RECURSIVE SortByPath(_, _)
SortByPath(items, n) ==
  IF n = 0
  THEN <<>>
  ELSE LET before == SortByPath(items, n - 1)
           g == items[n]
           m == Cardinality({k \in 1..Len(before) : PathRank(before[k][1]) <= PathRank(g[1])})
       IN SubSeq(before, 1, m) \o <<g>> \o SubSeq(before, m + 1, Len(before))

\* The items of the dict as they are, in insertion order.
Unsorted(items) == items

\* sorted(conflicts.items()) (line 128).
SortedByPath(items) == SortByPath(items, Len(items))

\* Lines 128-130 from the k-th sorted item on: one row for every entry.
RECURSIVE ConflictRows(_, _)
ConflictRows(sorted, k) ==
  IF k > Len(sorted)
  THEN <<>>
  ELSE [j \in 1..Len(sorted[k][2]) |-> <<sorted[k][1], sorted[k][2][j][1], sorted[k][2][j][3]>>]
       \o ConflictRows(sorted, k + 1)

\* write_conflicts_csv(conflicts): the rows written (lines 127-130).
write_conflicts_csv(conf) ==
  <<(<<"rel_path", "location", "sha256">>)>> \o ConflictRows(SortedByPath(conf), 1)

\* The configured locations hold up to MaxFiles files; main() has not run.
CompareInit ==
  /\ disk \in {d \in [LocationNames \X RelPaths -> Contents \cup {NoContent}] :
                 Cardinality({x \in LocationNames \X RelPaths : d[x] # NoContent}) <= MaxFiles}
  /\ roots = LocationNames
  /\ unhashable = {}
  /\ cpc = "scan"
  /\ records = <<>>
  /\ dups = <<>>
  /\ conflicts = <<>>
  /\ duplicates_csv = <<>>
  /\ conflicts_csv = <<>>

\* The files of a tree.
FilesOf(d) == {x \in LocationNames \X RelPaths : d[x] # NoContent}

\* Up to MaxMissing roots are no directories, the others hold up to
\* MaxScanFiles files, of which up to MaxUnhashable cannot be hashed; main()
\* has not run.
ScanInit ==
  /\ roots \in {r \in SUBSET LocationNames : Cardinality(LocationNames \ r) <= MaxMissing}
  /\ disk \in {d \in [LocationNames \X RelPaths -> Contents \cup {NoContent}] :
                 /\ Cardinality(FilesOf(d)) <= MaxScanFiles
                 /\ \A x \in FilesOf(d) : x[1] \in roots}
  /\ unhashable \in {u \in SUBSET FilesOf(disk) : Cardinality(u) <= MaxUnhashable}
  /\ cpc = "scan"
  /\ records = <<>>
  /\ dups = <<>>
  /\ conflicts = <<>>
  /\ duplicates_csv = <<>>
  /\ conflicts_csv = <<>>

\* main() is not run.
CompareIdle ==
  /\ disk = [x \in LocationNames \X RelPaths |-> NoContent]
  /\ roots = LocationNames
  /\ unhashable = {}
  /\ cpc = "idle"
  /\ records = <<>>
  /\ dups = <<>>
  /\ conflicts = <<>>
  /\ duplicates_csv = <<>>
  /\ conflicts_csv = <<>>

\* main(), line 139: records = collect_swift_files().
MainCollect ==
  /\ cpc = "scan"
  /\ records' \in collect_swift_files(disk, roots, unhashable)
  /\ cpc' = "collected"
  /\ UNCHANGED <<disk, roots, unhashable, dups, conflicts, duplicates_csv, conflicts_csv>>
  /\ UNCHANGED <<mergeVars, restVars>>

\* main(), line 143: dups = build_content_groups(records).
MainContentGroups ==
  /\ cpc = "collected"
  /\ dups' = build_content_groups(records)
  /\ cpc' = "grouped"
  /\ UNCHANGED <<disk, roots, unhashable, records, conflicts, duplicates_csv, conflicts_csv>>
  /\ UNCHANGED <<mergeVars, restVars>>

\* main(), line 147: conflicts = build_conflict_groups(records).
MainConflictGroups ==
  /\ cpc = "grouped"
  /\ conflicts' = build_conflict_groups(records)
  /\ cpc' = "classified"
  /\ UNCHANGED <<disk, roots, unhashable, records, dups, duplicates_csv, conflicts_csv>>
  /\ UNCHANGED <<mergeVars, restVars>>

\* main(), line 151: write_duplicates_csv(dups).
MainWriteDuplicates ==
  /\ cpc = "classified"
  /\ duplicates_csv' = write_duplicates_csv(dups)
  /\ cpc' = "duplicates_written"
  /\ UNCHANGED <<disk, roots, unhashable, records, dups, conflicts, conflicts_csv>>
  /\ UNCHANGED <<mergeVars, restVars>>

\* main(), line 152: write_conflicts_csv(conflicts).
MainWriteConflicts ==
  /\ cpc = "duplicates_written"
  /\ conflicts_csv' = write_conflicts_csv(conflicts)
  /\ cpc' = "reported"
  /\ UNCHANGED <<disk, roots, unhashable, records, dups, conflicts, duplicates_csv>>
  /\ UNCHANGED <<mergeVars, restVars>>

CompareNext ==
  \/ MainCollect
  \/ MainContentGroups
  \/ MainConflictGroups
  \/ MainWriteDuplicates
  \/ MainWriteConflicts

----------------------------------------------------------------------------
(* extract_files.py and extract_file.py: snapshot extraction.              *)

\* The double quote character.
Quote == "\""

\* The characters of a snapshot file that holds no JSON object.
Chars == {"s", Quote}

\* The texts of at most n characters.
Texts(n) == UNION {[1..k -> Chars] : k \in 0..n}

\* The payloads of chunks.
Payloads == {<<"a">>, <<"b">>}

\* The "range" of a chunk: the key is absent ("none"), an object without
\* "start" ("nostart"), null ("null"), or an object with a start.
ChunkRanges ==
  {[kind |-> k, start |-> 0] : k \in {"none", "nostart", "null"}}
    \cup {[kind |-> "start", start |-> n] : n \in 0..MaxStart}

\* The chunks: with a "chunk" payload or without the key.
Chunks ==
  {[range |-> r, has_chunk |-> TRUE, chunk |-> t] : r \in ChunkRanges, t \in Payloads}
    \cup {[range |-> r, has_chunk |-> FALSE, chunk |-> <<>>] : r \in ChunkRanges}

\* What a snapshot file may hold: a JSON object with a documentChunks list
\* ("chunked"), another JSON object ("object"), or any text ("text").
Snapshots ==
  {[kind |-> "chunked", chunks |-> c, chars |-> <<>>] : c \in UNION {[1..k -> Chunks] : k \in 0..MaxChunks}}
    \cup {[kind |-> "object", chunks |-> <<>>, chars |-> <<>>]}
    \cup {[kind |-> "text", chunks |-> <<>>, chars |-> t] : t \in Texts(MaxText)}

\* raw_data.startswith('"') and raw_data.endswith('"') (extract_file.py, line 54).
IsQuoted(chars) == Len(chars) >= 1 /\ chars[1] = Quote /\ chars[Len(chars)] = Quote

\* The text is one JSON string literal.
IsJsonString(chars) ==
  /\ Len(chars) >= 2
  /\ chars[1] = Quote
  /\ chars[Len(chars)] = Quote
  /\ \A k \in 2..(Len(chars) - 1) : chars[k] # Quote

\* json.loads(raw_data): the parsed value, or ok = FALSE for JSONDecodeError.
json_loads(raw) ==
  IF raw.kind = "chunked" THEN [ok |-> TRUE, type |-> "chunked", chunks |-> raw.chunks, text |-> <<>>]
  ELSE IF raw.kind = "object" THEN [ok |-> TRUE, type |-> "dict", chunks |-> <<>>, text |-> <<>>]
  ELSE IF IsJsonString(raw.chars) THEN [ok |-> TRUE, type |-> "str", chunks |-> <<>>, text |-> SubSeq(raw.chars, 2, Len(raw.chars) - 1)]
  ELSE [ok |-> FALSE, type |-> "error", chunks |-> <<>>, text |-> <<>>]

\* A sort key that puts a chunk without a start last.
StartOrLast(chunk) == IF chunk.range.kind = "start" THEN chunk.range.start ELSE MaxStart + 1

\* x.get("range", {}).get("start", 0) (extract_files.py, line 56).
ChunkStart(chunk) == IF chunk.range.kind = "start" THEN chunk.range.start ELSE 0

\* The sort key raises: None has no get.
KeyRaises(chunk) == chunk.range.kind = "null"

\* sorted(chunks, key=...) after the first n chunks: a stable sort.
RECURSIVE SortChunks(_, _)
SortChunks(chunks, n) ==
  IF n = 0
  THEN <<>>
  ELSE LET before == SortChunks(chunks, n - 1)
           c == chunks[n]
           m == Cardinality({k \in 1..Len(before) : ChunkStart(before[k]) <= ChunkStart(c)})
       IN SubSeq(before, 1, m) \o <<c>> \o SubSeq(before, m + 1, Len(before))

\* The chunks left in the order of the input.
InInputOrder(chunks) == chunks

\* sorted(chunks, key=lambda x: x.get("range", {}).get("start", 0)).
SortedByStart(chunks) == SortChunks(chunks, Len(chunks))

\* Lines 55-59: try the sort, keep the input order when it raises.
SortedOrAsGiven(chunks) ==
  IF \E k \in 1..Len(chunks) : KeyRaises(chunks[k])
  THEN chunks
  ELSE SortedByStart(chunks)

\* Lines 62-64 from the k-th chunk on: swift_code += chunk["chunk"] for
\* every chunk that has the key.
RECURSIVE JoinChunks(_, _)
JoinChunks(chunks, k) ==
  IF k > Len(chunks)
  THEN <<>>
  ELSE (IF chunks[k].has_chunk THEN chunks[k].chunk ELSE <<>>) \o JoinChunks(chunks, k + 1)

\* Lines 52-66: the text put together from the document chunks.
ReassembleChunks(chunks) == JoinChunks(SortedOrAsGiven(chunks), 1)

\* No text: the function returned None, the script wrote no file.
NoText == [ok |-> FALSE, text |-> <<>>]

SomeText(t) == [ok |-> TRUE, text |-> t]

\* extract_swift_from_json(json_file_path) of extract_files.py on a file
\* that holds raw (lines 40-75).
extract_swift_from_json(raw) ==
  LET data == json_loads(raw)
  IN IF ~data.ok THEN NoText
     ELSE IF data.type = "chunked" THEN SomeText(ReassembleChunks(data.chunks))
     ELSE IF data.type = "str" THEN SomeText(data.text)
     ELSE NoText

\* str(data) of a dict.
ReprOfObject == <<"{", "}">>

\* extract_file.py, lines 13-71: what the script writes to output_file.
extract_file_script(raw) ==
  LET data == json_loads(raw)
  IN IF data.ok
     THEN IF data.type = "chunked" THEN SomeText(ReassembleChunks(data.chunks))
          ELSE IF data.type = "str" THEN SomeText(data.text)
          ELSE SomeText(ReprOfObject)
     ELSE IF IsQuoted(raw.chars)
          THEN (IF json_loads(raw).ok THEN SomeText(json_loads(raw).text) ELSE NoText)
          ELSE SomeText(raw.chars)

\* A snapshot file holds anything; no extraction has run.
ExtractInit ==
  /\ snapshot \in Snapshots
  /\ ran = {}
  /\ swift_code = NoText
  /\ output_file = NoText

\* No extraction is run.
ExtractIdle ==
  /\ snapshot = [kind |-> "object", chunks |-> <<>>, chars |-> <<>>]
  /\ ran = {}
  /\ swift_code = NoText
  /\ output_file = NoText

\* extract_files.py, line 115: swift_code = extract_swift_from_json(backup_file).
RunExtractFiles ==
  /\ "extract_files" \notin ran
  /\ ran' = ran \cup {"extract_files"}
  /\ swift_code' = extract_swift_from_json(snapshot)
  /\ UNCHANGED <<snapshot, output_file>>
  /\ UNCHANGED <<mergeVars, compareVars, classifyVars, backupVars, menuVars>>

\* extract_file.py run on the snapshot.
RunExtractFile ==
  /\ "extract_file" \notin ran
  /\ ran' = ran \cup {"extract_file"}
  /\ output_file' = extract_file_script(snapshot)
  /\ UNCHANGED <<snapshot, swift_code>>
  /\ UNCHANGED <<mergeVars, compareVars, classifyVars, backupVars, menuVars>>

ExtractNext ==
  \/ RunExtractFiles
  \/ RunExtractFile

----------------------------------------------------------------------------
(* extract_files.py: get_output_path.                                      *)

\* The words file names are made of; a file name is the sequence of its
\* words, so that "AuthViewModel" is <<"Auth", "View", "Model">>.
Words == {"View", "Model", "Screen", "Tab", "App", "Delegate", "Auth", "Manager", "Service", "State", "Font"}

FileNames == UNION {[1..n -> Words] : n \in 1..MaxWords}

\* x in filename: the words of x are found in the file name, one after the
\* other.
Contains(name, x) ==
  \E i \in 1..(Len(name) - Len(x) + 1) : SubSeq(name, i, i + Len(x) - 1) = x

\* Line 33.
output_base == "DontpullupFix"

\* No path returned yet.
NoPath == <<>>

\* The checks of lines 93-96 in the other order.
ViewsFirst(name) ==
  LET subdir ==
        IF Contains(name, <<"View">>) \/ Contains(name, <<"Screen">>) \/ Contains(name, <<"Tab", "View">>)
        THEN "Views"
        ELSE IF \E x \in {<<"View", "Model">>, <<"Model">>} : Contains(name, x)
        THEN "ViewModels"
        ELSE IF Contains(name, <<"App">>) \/ Contains(name, <<"App", "Delegate">>)
        THEN "App"
        ELSE IF Contains(name, <<"Auth">>) /\ ~Contains(name, <<"View">>)
        THEN "Authentication"
        ELSE IF Contains(name, <<"Manager">>) \/ Contains(name, <<"Service">>) \/ Contains(name, <<"State">>)
        THEN "Services"
        ELSE "Utils"
  IN  <<output_base, subdir, name>>

\* get_output_path(filename), lines 91-106.
get_output_path(name) ==
  LET subdir ==
        IF \E x \in {<<"View", "Model">>, <<"Model">>} : Contains(name, x)
        THEN "ViewModels"
        ELSE IF Contains(name, <<"View">>) \/ Contains(name, <<"Screen">>) \/ Contains(name, <<"Tab", "View">>)
        THEN "Views"
        ELSE IF Contains(name, <<"App">>) \/ Contains(name, <<"App", "Delegate">>)
        THEN "App"
        ELSE IF Contains(name, <<"Auth">>) /\ ~Contains(name, <<"View">>)
        THEN "Authentication"
        ELSE IF Contains(name, <<"Manager">>) \/ Contains(name, <<"Service">>) \/ Contains(name, <<"State">>)
        THEN "Services"
        ELSE "Utils"
  IN  <<output_base, subdir, name>>

\* A file name, not classified yet.
ClassifyInit ==
  /\ filename \in FileNames
  /\ output_path = NoPath

\* get_output_path is not called.
ClassifyIdle ==
  /\ filename = <<"Font">>
  /\ output_path = NoPath

\* main(), line 119: output_path = get_output_path(filename).
GetOutputPath ==
  /\ output_path = NoPath
  /\ output_path' = get_output_path(filename)
  /\ UNCHANGED filename
  /\ UNCHANGED <<mergeVars, compareVars, extractVars, backupVars, menuVars>>

ClassifyNext == GetOutputPath

----------------------------------------------------------------------------
(* extract_files.py: find_latest_backup.                                   *)

\* backup_dirs in its order (lines 27-31).
backup_dirs == <<"Dontpullup.f91b05ba", "Dontpullup.99a82dc3", "Dontpullupgit.66c1d1fb">>

\* The file names snapshots are kept of.
BackupNames == {"RootView.swift", "AuthView.swift"}

\* What stands between the file name and "json" in a snapshot's name.
Suffixes == {"1.", "2."}

\* The snapshot files a directory may hold: <<directory, file name, suffix>>.
SnapshotFiles == {backup_dirs[k] : k \in 1..Len(backup_dirs)} \X BackupNames \X Suffixes

\* The mtime of a file that is not there.
Absent == 0

\* No file: find_latest_backup returns None.
None == <<>>

\* glob.glob(os.path.join(backup_dir, f"{filename}.*json")), lines 81-82.
Matches(c, backup_dir, name) ==
  {x \in SnapshotFiles : x[1] = backup_dir /\ x[2] = name /\ c[x] # Absent}

\* Lines 86-87: the first of the matches sorted by mtime, newest first; of
\* matches of one mtime the one glob listed first.
NewestOf(c, matches) == {x \in matches : \A y \in matches : c[x] >= c[y]}

\* Lines 79-89 from the k-th directory on.
RECURSIVE FindFrom(_, _, _)
FindFrom(c, name, k) ==
  IF k > Len(backup_dirs)
  THEN {None}
  ELSE IF Matches(c, backup_dirs[k], name) # {}
       THEN NewestOf(c, Matches(c, backup_dirs[k], name))
       ELSE FindFrom(c, name, k + 1)

\* find_latest_backup(filename): the files it may return.
find_latest_backup(c, name) == FindFrom(c, name, 1)

\* The directories hold up to MaxBackups snapshot files; no search yet.
BackupInit ==
  /\ cache \in {c \in [SnapshotFiles -> {Absent} \cup 1..MaxMtime] :
                  Cardinality({x \in SnapshotFiles : c[x] # Absent}) <= MaxBackups}
  /\ wanted = ""
  /\ latest = None

\* find_latest_backup is not called.
BackupIdle ==
  /\ cache = [x \in SnapshotFiles |-> Absent]
  /\ wanted = ""
  /\ latest = None

\* main(), line 112: backup_file = find_latest_backup(filename).
FindLatestBackup ==
  /\ wanted = ""
  /\ \E name \in BackupNames :
       /\ wanted' = name
       /\ latest' \in find_latest_backup(cache, name)
  /\ UNCHANGED cache
  /\ UNCHANGED <<mergeVars, compareVars, extractVars, classifyVars, menuVars>>

BackupNext == FindLatestBackup

----------------------------------------------------------------------------
(* compare_and_merge.py with compare_files.py.                             *)

\* The keys of the dict locations in its order (lines 9-15).
locations == <<"current", "backup", "music", "merged", "recovered">>

\* The Swift files the locations may hold.
MenuPaths == {"Views/AuthView.swift"}

\* The files of MenuPaths in ascending order.
MenuPathOrder == <<"Views/AuthView.swift">>

\* Lines 138-146.
critical_files ==
  << "ViewModels/MapViewModel.swift", "ViewModels/AuthViewModel.swift", "Views/MainTabView.swift",
     "Views/SplashScreen.swift", "App/dontpullupApp.swift", "Views/AuthView.swift", "Services/AuthState.swift" >>

\* os.path.exists(os.path.join(locations[loc], path)).
PathExists(t, loc, path) == path \in MenuPaths /\ t[<<loc, path>>]

\* compare_files.py, lines 23-29: all_files.
AllFiles(t, dirs) == {path \in MenuPaths : \E loc \in dirs : t[<<loc, path>>]}

\* compare_files.py, lines 34-42: the row of a file, "yes" for the check
\* mark and "no" for the cross.
RowOf(t, dirs, path) ==
  [file |-> path,
   marks |-> [loc \in LocationNames |->
                IF loc \in dirs THEN (IF t[<<loc, path>>] THEN "yes" ELSE "no") ELSE "N/A"]]

\* compare_files.py, generate_comparison_list: the rows it writes.
generate_comparison_list(t, dirs) ==
  LET files == SelectSeq(MenuPathOrder, LAMBDA path : path \in AllFiles(t, dirs))
  IN  [k \in 1..Len(files) |-> RowOf(t, dirs, files[k])]

\* file_comparison_list.csv is not there.
NoCsv == [exists |-> FALSE, rows |-> <<>>]

\* file_comparison_list.csv with rows.
CsvOf(rows) == [exists |-> TRUE, rows |-> rows]

\* subprocess.run(["python3", "compare_files.py"]): the file after the run,
\* which writes the list or fails and leaves the file as it was; the return
\* code is not looked at.
RunGenerator(csv, t, dirs) == {CsvOf(generate_comparison_list(t, dirs)), csv}

\* A line the user types: the numeral of n, or a text that is no number.
Numeral(n) == [kind |-> "int", n |-> n]

NotANumber == [kind |-> "text", n |-> 0]

InputLines == {Numeral(n) : n \in (-1)..MaxNumber} \cup {NotANumber}

\* loc_nums.split(","): the parts of a line of location numbers.
SplitLines == UNION {[1..k -> InputLines] : k \in 1..MaxLocNums}

\* int(line) returns, it does not raise ValueError.
IsInt(line) == line.kind = "int"

\* seq[i] of a Python list does not raise IndexError.
InIndexRange(seq, i) == i >= 0 - Len(seq) /\ i < Len(seq)

\* seq[i] of a Python list; a negative i counts from the end.
ItemAt(seq, i) == seq[IF i >= 0 THEN i + 1 ELSE Len(seq) + i + 1]

\* The keys of tools (lines 125, 160).
tools == {Numeral(1), Numeral(2), Numeral(3)}

\* compare_files(file_path, locations_to_compare, tool): what it prints.
compare_files(t, path, locs) ==
  LET file_paths == SelectSeq(locs, LAMBDA loc : PathExists(t, loc, path))
  IN  IF Len(file_paths) < 2 THEN {"Not enough files to compare"} ELSE {"Comparing"}

\* A function called from the menu returns: the loop prints the menu again.
BackToMenu(msgs) ==
  /\ mpc' = "menu"
  /\ printed' = msgs
  /\ file_path' = ""
  /\ file_num' = 0
  /\ selected_locs' = <<>>
  /\ src_name' = ""

\* The locations hold any files; compare_and_merge.py is started, with or
\* without file_comparison_list.csv.
MenuInit ==
  /\ trees \in [LocationNames \X MenuPaths -> BOOLEAN]
  /\ csv_file \in {NoCsv, CsvOf(generate_comparison_list(trees, LocationNames))}
  /\ file_list = <<>>
  /\ mpc = "load"
  /\ depth = 1
  /\ runs = 0
  /\ typed = <<>>
  /\ printed = {}
  /\ file_path = ""
  /\ file_num = 0
  /\ selected_locs = <<>>
  /\ src_name = ""

\* compare_and_merge.py is not run.
MenuIdle ==
  /\ trees = [x \in LocationNames \X MenuPaths |-> FALSE]
  /\ csv_file = NoCsv
  /\ file_list = <<>>
  /\ mpc = "idle"
  /\ depth = 0
  /\ runs = 0
  /\ typed = <<>>
  /\ printed = {}
  /\ file_path = ""
  /\ file_num = 0
  /\ selected_locs = <<>>
  /\ src_name = ""

\* One call of load_file_list (lines 18-26), the first from line 56: it
\* returns the rows of the file, or runs the generator and calls itself.
LoadFileList ==
  /\ mpc = "load"
  /\ IF csv_file.exists
     THEN /\ file_list' = csv_file.rows
          /\ mpc' = "menu"
          /\ depth' = 0
          /\ UNCHANGED <<csv_file, runs>>
     ELSE /\ csv_file' \in RunGenerator(csv_file, trees, roots)
          /\ runs' = runs + 1
          /\ IF depth < RecursionLimit
             THEN depth' = depth + 1 /\ mpc' = "load"
             ELSE depth' = depth /\ mpc' = "RecursionError"
          /\ UNCHANGED file_list
  /\ UNCHANGED <<trees, typed, printed, file_path, file_num, selected_locs, src_name>>
  /\ UNCHANGED <<mergeVars, compareVars, extractVars, classifyVars, backupVars>>

\* interactive_menu, lines 59-83: one round of the loop up to the next
\* input() of the function it calls.
MenuChoice ==
  /\ mpc = "menu"
  /\ \E choice \in InputLines :
       /\ typed' = <<choice>>
       /\ IF choice = Numeral(1) THEN mpc' = "menu" /\ printed' = {"table"}
          ELSE IF choice = Numeral(2) THEN mpc' = "cmp_file" /\ printed' = {"table"}
          ELSE IF choice = Numeral(3) THEN mpc' = "bulk_file" /\ printed' = {"critical files"}
          ELSE IF choice = Numeral(4) THEN mpc' = "copy_file" /\ printed' = {"table"}
          ELSE IF choice = Numeral(5) THEN mpc' = "open_file" /\ printed' = {"table"}
          ELSE IF choice = Numeral(6) THEN mpc' = "exited" /\ printed' = {"Exiting"}
          ELSE mpc' = "menu" /\ printed' = {"Invalid choice"}
  /\ UNCHANGED <<trees, csv_file, file_list, depth, runs, file_path, file_num, selected_locs, src_name>>
  /\ UNCHANGED <<mergeVars, compareVars, extractVars, classifyVars, backupVars>>

\* The file number prompt of a menu function (lines 107-113, 182-188,
\* 242-248): list is the function's file_list, on_error what its except
\* clause prints.
ReadFileNumber(prompt, list, next, on_error) ==
  /\ mpc = prompt
  /\ \E line \in InputLines :
       /\ typed' = <<line>>
       /\ IF ~IsInt(line)
          THEN BackToMenu({on_error})
          ELSE IF line.n - 1 < 0 \/ line.n - 1 >= Len(list)
          THEN BackToMenu({"Invalid file number"})
          ELSE /\ mpc' = next
               /\ file_path' = list[line.n].file
               /\ printed' = {"locations"}
               /\ UNCHANGED <<file_num, selected_locs, src_name>>
  /\ UNCHANGED <<trees, csv_file, file_list, depth, runs>>
  /\ UNCHANGED <<mergeVars, compareVars, extractVars, classifyVars, backupVars>>

\* compare_specific_file, lines 107-119.
CompareFileNumber == ReadFileNumber("cmp_file", file_list, "cmp_locs", "Invalid input")

\* compare_specific_file, lines 121-123 and 132-133.
CompareLocations ==
  /\ mpc = "cmp_locs"
  /\ \E nums \in SplitLines :
       /\ typed' = nums
       /\ IF \E k \in 1..Len(nums) : ~IsInt(nums[k]) \/ ~InIndexRange(locations, nums[k].n - 1)
          THEN BackToMenu({"Invalid location numbers"})
          ELSE /\ mpc' = "cmp_tool"
               /\ selected_locs' = [k \in 1..Len(nums) |-> ItemAt(locations, nums[k].n - 1)]
               /\ printed' = {}
               /\ UNCHANGED <<file_path, file_num, src_name>>
  /\ UNCHANGED <<trees, csv_file, file_list, depth, runs>>
  /\ UNCHANGED <<mergeVars, compareVars, extractVars, classifyVars, backupVars>>

\* compare_specific_file, lines 125-131.
CompareTool ==
  /\ mpc = "cmp_tool"
  /\ \E tool_choice \in InputLines :
       /\ typed' = <<tool_choice>>
       /\ IF tool_choice \in tools
          THEN BackToMenu(compare_files(trees, file_path, selected_locs))
          ELSE BackToMenu({"Invalid tool choice"})
  /\ UNCHANGED <<trees, csv_file, file_list, depth, runs>>
  /\ UNCHANGED <<mergeVars, compareVars, extractVars, classifyVars, backupVars>>

\* bulk_compare_critical_files, lines 154-158 and 173-174.
BulkFileNumber ==
  /\ mpc = "bulk_file"
  /\ \E line \in InputLines :
       /\ typed' = <<line>>
       /\ IF ~IsInt(line)
          THEN BackToMenu({"Invalid input"})
          ELSE IF line.n < 0 \/ line.n > Len(critical_files)
          THEN BackToMenu({"Invalid file number"})
          ELSE /\ mpc' = "bulk_tool"
               /\ file_num' = line.n
               /\ printed' = {}
               /\ UNCHANGED <<file_path, selected_locs, src_name>>
  /\ UNCHANGED <<trees, csv_file, file_list, depth, runs>>
  /\ UNCHANGED <<mergeVars, compareVars, extractVars, classifyVars, backupVars>>

\* bulk_compare_critical_files, lines 160-172.
BulkTool ==
  /\ mpc = "bulk_tool"
  /\ \E tool_choice \in InputLines :
       /\ typed' = <<tool_choice>>
       /\ IF tool_choice \notin tools
          THEN BackToMenu({"Invalid tool choice"})
          ELSE IF file_num = 0
          THEN BackToMenu(UNION {compare_files(trees, critical_files[k], <<"current", "merged">>) :
                                   k \in 1..Len(critical_files)})
          ELSE BackToMenu(compare_files(trees, critical_files[file_num], <<"current", "merged">>))
  /\ UNCHANGED <<trees, csv_file, file_list, depth, runs>>
  /\ UNCHANGED <<mergeVars, compareVars, extractVars, classifyVars, backupVars>>

\* copy_file_between_locations, lines 178-194; load_file_list (line 178)
\* finds the file that the first call found or made.
CopyFileNumber == ReadFileNumber("copy_file", csv_file.rows, "copy_src", "Error")

\* copy_file_between_locations, lines 196-213 and 233-234.
CopySource ==
  /\ mpc = "copy_src"
  /\ \E line \in InputLines :
       /\ typed' = <<line>>
       /\ IF ~IsInt(line)
          THEN BackToMenu({"Error"})
          ELSE IF line.n - 1 < 0 \/ line.n - 1 >= Len(locations)
          THEN BackToMenu({"Invalid source location"})
          ELSE IF ~PathExists(trees, locations[line.n], file_path)
          THEN BackToMenu({"File doesn't exist"})
          ELSE /\ mpc' = "copy_dst"
               /\ src_name' = locations[line.n]
               /\ printed' = {"locations"}
               /\ UNCHANGED <<file_path, file_num, selected_locs>>
  /\ UNCHANGED <<trees, csv_file, file_list, depth, runs>>
  /\ UNCHANGED <<mergeVars, compareVars, extractVars, classifyVars, backupVars>>

\* copy_file_between_locations, lines 215-234: shutil.copy2 raises
\* SameFileError when the destination is the source.
CopyDestination ==
  /\ mpc = "copy_dst"
  /\ \E line \in InputLines :
       /\ typed' = <<line>>
       /\ IF ~IsInt(line)
          THEN BackToMenu({"Error"}) /\ UNCHANGED <<trees, csv_file>>
          ELSE IF line.n - 1 < 0 \/ line.n - 1 >= Len(locations)
          THEN BackToMenu({"Invalid destination location"}) /\ UNCHANGED <<trees, csv_file>>
          ELSE IF locations[line.n] = src_name
          THEN BackToMenu({"Error"}) /\ UNCHANGED <<trees, csv_file>>
          ELSE /\ trees' = [trees EXCEPT ![<<locations[line.n], file_path>>] = TRUE]
               /\ csv_file' \in RunGenerator(csv_file, trees', roots)
               /\ BackToMenu({"Copied"})
  /\ UNCHANGED <<file_list, depth, runs>>
  /\ UNCHANGED <<mergeVars, compareVars, extractVars, classifyVars, backupVars>>

\* open_file_in_editor, lines 238-254.
OpenFileNumber == ReadFileNumber("open_file", csv_file.rows, "open_loc", "Invalid input")

\* open_file_in_editor, lines 256-271.
OpenLocation ==
  /\ mpc = "open_loc"
  /\ \E line \in InputLines :
       /\ typed' = <<line>>
       /\ IF ~IsInt(line)
          THEN BackToMenu({"Invalid input"})
          ELSE IF line.n - 1 < 0 \/ line.n - 1 >= Len(locations)
          THEN BackToMenu({"Invalid location"})
          ELSE IF ~PathExists(trees, locations[line.n], file_path)
          THEN BackToMenu({"File doesn't exist"})
          ELSE BackToMenu({"editor opened"})
  /\ UNCHANGED <<trees, csv_file, file_list, depth, runs>>
  /\ UNCHANGED <<mergeVars, compareVars, extractVars, classifyVars, backupVars>>

MenuNext ==
  \/ LoadFileList
  \/ MenuChoice
  \/ CompareFileNumber
  \/ CompareLocations
  \/ CompareTool
  \/ BulkFileNumber
  \/ BulkTool
  \/ CopyFileNumber
  \/ CopySource
  \/ CopyDestination
  \/ OpenFileNumber
  \/ OpenLocation

\* The scripts other than merge_files and compare_code_files are not run.
RestIdle == ExtractIdle /\ ClassifyIdle /\ BackupIdle /\ MenuIdle

InitExtract == MergeIdle /\ CompareIdle /\ ExtractInit /\ ClassifyIdle /\ BackupIdle /\ MenuIdle

SpecExtract == InitExtract /\ [][ExtractNext]_vars

InitClassify == MergeIdle /\ CompareIdle /\ ExtractIdle /\ ClassifyInit /\ BackupIdle /\ MenuIdle

\* get_output_path on every file name.
SpecClassify == InitClassify /\ [][ClassifyNext]_vars

InitBackup == MergeIdle /\ CompareIdle /\ ExtractIdle /\ ClassifyIdle /\ BackupInit /\ MenuIdle

\* find_latest_backup on every content of the backup directories.
SpecBackup == InitBackup /\ [][BackupNext]_vars

InitMenu == MergeIdle /\ CompareIdle /\ ExtractIdle /\ ClassifyIdle /\ BackupIdle /\ MenuInit

\* compare_and_merge.py with a user at its prompts.
SpecMenu == InitMenu /\ [][MenuNext]_vars

----------------------------------------------------------------------------
MergeNext ==
  \/ StartMerge
  \/ CopyMusic
  \/ MusicDone
  \/ MergeRecovery
  \/ MergeComplete
  \/ RunAgain

Init == MergeInit /\ CompareIdle /\ RestIdle

Next == MergeNext

Spec == Init /\ [][Next]_vars

InitCompare == MergeIdle /\ CompareInit /\ RestIdle

SpecCompare == InitCompare /\ [][CompareNext]_vars

InitScan == MergeIdle /\ ScanInit /\ RestIdle

\* main() of compare_code_files on trees with missing roots and files that
\* cannot be hashed.
SpecScan == InitScan /\ [][CompareNext]_vars

RaceNext ==
  \/ MergeNext
  \/ ExternalDelete
  \/ ExternalProtect

SpecRace == Init /\ [][RaceNext]_vars

----------------------------------------------------------------------------
(* Properties of merge_files.                                              *)

InBoth(p) == Exists(music[p]) /\ Exists(recovery[p])

\* The positions of the report that speak of path p with one of the kinds.
EntriesOf(rep, kinds, p) == {k \in 1..Len(rep) : rep[k][2] = p /\ rep[k][1] \in kinds}

HasEntry(kind, p) == EntriesOf(report, {kind}, p) # {}

AllKinds == {"Copied", "Updated", "Kept", "Added"}

\* C1: for a path in both sources the finished merge holds the Recovery
\* content when the Recovery source is newer than the Music source and the
\* Music content when it is older; the comparison against the copied
\* destination file decides as the comparison of the two source times does.
C1_SourceMtimeDecides ==
  pc = "done" =>
    \A p \in RelPaths : InBoth(p) =>
      /\ recovery[p].mtime > music[p].mtime => merged[p].content = recovery[p].content
      /\ recovery[p].mtime < music[p].mtime => merged[p].content = music[p].content
      /\ HasEntry("Updated", p) <=> recovery[p].mtime > music[p].mtime
      /\ HasEntry("Kept", p) <=> ~(recovery[p].mtime > music[p].mtime)

\* A finished merge with one path where the newer Recovery file replaced a
\* different Music file and one where the older Recovery file did not.
C1_Witness ==
  /\ pc = "done"
  /\ \E p, q \in RelPaths :
       /\ InBoth(p) /\ InBoth(q)
       /\ recovery[p].mtime > music[p].mtime
       /\ recovery[p].content # music[p].content
       /\ merged[p].content = recovery[p].content
       /\ recovery[q].mtime < music[q].mtime
       /\ recovery[q].content # music[q].content
       /\ merged[q].content = music[q].content

\* C2: after merge_files every path of either source is in the destination,
\* a path of one source only holds that source's file, and the number of
\* processed paths is the size of the union of the two sources' paths.
C2_UnionMaterialized ==
  pc = "done" =>
    /\ \A p \in Glob(music) \cup Glob(recovery) : Exists(merged[p])
    /\ \A p \in Glob(music) \ Glob(recovery) : merged[p] = music[p]
    /\ \A p \in Glob(recovery) \ Glob(music) : merged[p] = recovery[p]
    /\ processed_files = Glob(music) \cup Glob(recovery)
    /\ Cardinality(processed_files) = Cardinality(Glob(music) \cup Glob(recovery))

\* A finished merge of one Music-only path and one Recovery-only path.
C2_Witness ==
  /\ pc = "done"
  /\ \E p, q \in RelPaths :
       /\ Exists(music[p]) /\ ~Exists(recovery[p]) /\ merged[p] = music[p]
       /\ Exists(recovery[q]) /\ ~Exists(music[q]) /\ merged[q] = recovery[q]
       /\ Cardinality(processed_files) = 2

\* C3: a pass of the second loop over a path already copied from Music
\* changes the destination file only when the Recovery file's time is
\* strictly greater than the destination file's; otherwise the destination
\* tree is left as it is and the pass reports that the file was kept.
C3_OverwriteOnlyWhenNewer ==
  [][\A p \in RelPaths :
       (/\ pc = "recovery"
        /\ idx <= Len(recovery_files)
        /\ recovery_files[idx] = p
        /\ p \in processed_files)
       => /\ merged'[p] # merged[p] => recovery[p].mtime > merged[p].mtime
          /\ recovery[p].mtime <= merged[p].mtime =>
               /\ merged' = merged
               /\ report' = Append(report, Entry("Kept", p))]_vars

\* The second loop has just kept a Music file whose Recovery twin has the
\* same time and other content.
C3_Witness ==
  /\ pc = "recovery"
  /\ \E p \in RelPaths :
       /\ InBoth(p)
       /\ Len(report) > 0
       /\ report[Len(report)] = Entry("Kept", p)
       /\ recovery[p].mtime = music[p].mtime
       /\ recovery[p].content # music[p].content
       /\ merged[p] = music[p]

\* The kinds of line that tell of a copy.
CopyKinds == {"Copied", "Updated", "Added"}

\* The lines of a report, without their order.
EntrySet(rep) == {rep[k] : k \in 1..Len(rep)}

\* C4 as stated: a second run on unchanged sources leaves the destination
\* tree as the first run left it and reports no copy.
C4_SecondRunCopiesNothing ==
  (pc = "done" /\ run >= 2) =>
    /\ merged = last_tree
    /\ \A k \in 1..Len(report) : report[k][1] \notin CopyKinds

\* C4 as amended: a second run on unchanged sources leaves the destination
\* tree (paths, content and time of every file) as the first run left it,
\* and it copies and reports every file the first run copied and reported.
C4_SecondRunSameTree ==
  (pc = "done" /\ run >= 2) =>
    /\ merged = last_tree
    /\ EntrySet(report) = EntrySet(last_report)
    /\ Len(report) = Len(last_report)
    /\ \A p \in Glob(music) : HasEntry("Copied", p)

\* A second run that copied a Music file again and replaced it again by
\* the newer Recovery file.
C4_Witness ==
  /\ pc = "done"
  /\ run = 2
  /\ \E p \in RelPaths :
       /\ HasEntry("Copied", p)
       /\ HasEntry("Updated", p)
       /\ merged[p] = recovery[p]
       /\ merged[p] # music[p]
       /\ last_tree = merged

\* C5 as stated: the report of a finished merge holds exactly one line for
\* every path of the union of the sources, so as many lines as the
\* destination holds files.
C5_OneEntryPerPath ==
  (pc = "done" /\ run = 1) =>
    /\ \A p \in Glob(music) \cup Glob(recovery) : Cardinality(EntriesOf(report, AllKinds, p)) = 1
    /\ Len(report) = Cardinality(Glob(merged))

\* C5 as amended: the report holds one line for every source file: one
\* "Copied" line for every Music file and, for every Recovery file, one line
\* that is "Updated" or "Kept" when the path is in Music too and "Added"
\* when it is not.  A path of both sources has two lines, and the report has
\* as many lines as the destination has files plus the paths in both sources.
C5_OneEntryPerSourceFile ==
  (pc = "done" /\ run = 1) =>
    /\ \A p \in RelPaths :
         /\ Cardinality(EntriesOf(report, {"Copied"}, p)) = (IF Exists(music[p]) THEN 1 ELSE 0)
         /\ Cardinality(EntriesOf(report, {"Updated", "Kept"}, p)) = (IF InBoth(p) THEN 1 ELSE 0)
         /\ Cardinality(EntriesOf(report, {"Added"}, p)) = (IF Exists(recovery[p]) /\ ~Exists(music[p]) THEN 1 ELSE 0)
    /\ Len(report) = Cardinality(Glob(music)) + Cardinality(Glob(recovery))
    /\ Len(report) = Cardinality(Glob(merged)) + Cardinality(Glob(music) \cap Glob(recovery))

\* A finished merge whose report has two lines for a path of both sources
\* and one line for a Recovery-only path.
C5_Witness ==
  /\ pc = "done"
  /\ run = 1
  /\ \E p, q \in RelPaths :
       /\ InBoth(p)
       /\ HasEntry("Copied", p)
       /\ HasEntry("Updated", p)
       /\ ~Exists(music[q])
       /\ HasEntry("Added", q)
       /\ Len(report) = 3
       /\ Cardinality(Glob(merged)) = 2

\* C6: a file that disappears or becomes unreadable between the glob and its
\* copy or time check is skipped and the merge goes on: merge_files is never
\* ended by an exception.
C6_BadFileNeverAborts == pc # "aborted"

----------------------------------------------------------------------------
(* Properties of compare_code_files.                                       *)

\* build_conflict_groups has returned.
ConflictsBuilt == cpc \in {"classified", "duplicates_written", "reported"}

\* build_content_groups has returned.
DupsBuilt == cpc \in {"grouped", "classified", "duplicates_written", "reported"}

\* The records of a relative path, in the order of the list.
RecordsAt(p) == SelectSeq(records, LAMBDA r : r[1] = p)

\* The fingerprints the records of a relative path carry.
HashesAt(p) == {records[k][4] : k \in {j \in 1..Len(records) : records[j][1] = p}}

\* The records that carry a fingerprint, in the order of the list.
RecordsWith(h) == SelectSeq(records, LAMBDA r : r[4] = h)

AllHashes == {compute_sha256(c) : c \in Contents}

\* C7: every relative path whose records carry two or more distinct
\* fingerprints is a key of the conflict groups, and its group lists every
\* record of the path (location, absolute path, fingerprint), also those of
\* locations whose content equals another location's.
C7_ConflictGroupsComplete ==
  ConflictsBuilt =>
    \A p \in RelPaths :
      Cardinality(HashesAt(p)) >= 2 =>
        /\ p \in Keys(conflicts)
        /\ Value(conflicts, p) = [k \in 1..Len(RecordsAt(p)) |-> <<RecordsAt(p)[k][2], RecordsAt(p)[k][3], RecordsAt(p)[k][4]>>]
        /\ {Value(conflicts, p)[k][1] : k \in 1..Len(Value(conflicts, p))} = {l \in LocationNames : disk[<<l, p>>] # NoContent}

\* A conflict group of three locations, two of them with the same code.
C7_Witness ==
  /\ ConflictsBuilt
  /\ \E p \in Keys(conflicts) :
       /\ Len(Value(conflicts, p)) = 3
       /\ Cardinality(UniqueHashes(Value(conflicts, p))) = 2

\* C8: no relative path whose records all share one fingerprint (a path of
\* one location included) is a key of the conflict groups: every returned
\* group holds at least two distinct fingerprints.
C8_NoFalseConflict ==
  ConflictsBuilt =>
    /\ \A k \in 1..Len(conflicts) : Cardinality(UniqueHashes(conflicts[k][2])) >= 2
    /\ \A p \in RelPaths : Cardinality(HashesAt(p)) <= 1 => p \notin Keys(conflicts)

\* One path with the same code in two or more locations and one path of a
\* single location; neither is reported, the groups are empty.
C8_Witness ==
  /\ ConflictsBuilt
  /\ conflicts = <<>>
  /\ \E p, q \in RelPaths :
       /\ Len(RecordsAt(p)) >= 2
       /\ Cardinality(HashesAt(p)) = 1
       /\ Len(RecordsAt(q)) = 1

\* C9: all records with one fingerprint are in one group whatever their
\* relative paths and locations, a fingerprint has a group exactly when two
\* or more records carry it, and every member of a group is a file with the
\* group's fingerprint.
C9_ContentGroups ==
  DupsBuilt =>
    /\ \A h \in AllHashes :
         /\ h \in Keys(dups) <=> Len(RecordsWith(h)) >= 2
         /\ h \in Keys(dups) =>
              Value(dups, h) = [k \in 1..Len(RecordsWith(h)) |-> <<RecordsWith(h)[k][1], RecordsWith(h)[k][2], RecordsWith(h)[k][3]>>]
    /\ \A k \in 1..Len(dups) :
         /\ dups[k][1] \in AllHashes
         /\ \A j \in 1..Len(dups[k][2]) :
              compute_sha256(disk[<<dups[k][2][j][2], dups[k][2][j][1]>>]) = dups[k][1]
    /\ \A a, b \in 1..Len(dups) : a # b => dups[a][1] # dups[b][1]

\* A duplicate group whose members differ in relative path and in location.
C9_Witness ==
  /\ DupsBuilt
  /\ \E k \in 1..Len(dups) :
       \E a, b \in 1..Len(dups[k][2]) :
         /\ dups[k][2][a][1] # dups[k][2][b][1]
         /\ dups[k][2][a][2] # dups[k][2][b][2]

\* The place of a location name in the order of strings.
NameRank(loc) == IndexIn(NameOrder, loc)

\* The place of a location in LOCATIONS.
ConfigRank(loc) == IndexIn(LOCATIONS, loc)

\* The rows of a report after its header row.
DataRows(csv) == SubSeq(csv, 2, Len(csv))

\* The duplicates report lists its groups by descending size.
DuplicatesDescending ==
  LET rows == DataRows(duplicates_csv)
  IN \A k \in 1..(Len(rows) - 1) : rows[k][2] >= rows[k + 1][2]

\* C10 as stated: the rows of the conflicts report are sorted by relative
\* path and, within one path, by location name; the duplicates report
\* lists its groups by descending size.
C10_SortedByLocationName ==
  cpc = "reported" =>
    /\ LET rows == DataRows(conflicts_csv)
       IN \A k \in 1..(Len(rows) - 1) :
            \/ PathRank(rows[k][1]) < PathRank(rows[k + 1][1])
            \/ /\ rows[k][1] = rows[k + 1][1]
               /\ NameRank(rows[k][2]) <= NameRank(rows[k + 1][2])
    /\ DuplicatesDescending

\* C10 as amended: the rows of the conflicts report are sorted by relative
\* path and, within one path, stand in the order of the locations in
\* LOCATIONS (current, backup, music, merged, recovered), one row for every
\* location; the duplicates report lists its groups by descending size.
C10_SortedByConfiguredLocation ==
  cpc = "reported" =>
    /\ LET rows == DataRows(conflicts_csv)
       IN /\ \A k \in 1..(Len(rows) - 1) :
               \/ PathRank(rows[k][1]) < PathRank(rows[k + 1][1])
               \/ /\ rows[k][1] = rows[k + 1][1]
                  /\ ConfigRank(rows[k][2]) < ConfigRank(rows[k + 1][2])
          /\ Len(rows) = Cardinality({x \in LocationNames \X Keys(conflicts) : disk[x] # NoContent})
    /\ Len(duplicates_csv) = Len(dups) + 1
    /\ DuplicatesDescending

\* Reports of two conflicting paths, one of them with a row of "current"
\* before a row of "backup", and of two duplicate groups of sizes 3 and 2.
C10_Witness ==
  /\ cpc = "reported"
  /\ Len(conflicts) = 2
  /\ \E k \in 2..(Len(conflicts_csv) - 1) :
       /\ conflicts_csv[k][1] = conflicts_csv[k + 1][1]
       /\ conflicts_csv[k][2] = "current"
       /\ conflicts_csv[k + 1][2] = "backup"
  /\ Len(duplicates_csv) = 3
  /\ duplicates_csv[2][2] = 3
  /\ duplicates_csv[3][2] = 2

----------------------------------------------------------------------------
(* Properties of the snapshot extraction.                                  *)

\* The results of the extractions that have run.
ExtractionResults ==
  (IF "extract_files" \in ran THEN {swift_code} ELSE {})
    \cup (IF "extract_file" \in ran THEN {output_file} ELSE {})

\* The order p of the chunks' positions is ascending in the chunks' keys,
\* chunks of one key in the order of the input.
AscendingStable(chunks, key, p) ==
  \A a, b \in 1..Len(chunks) :
    a < b =>
      \/ key[p[a]] < key[p[b]]
      \/ key[p[a]] = key[p[b]] /\ p[a] < p[b]

\* The payloads of the chunks joined in the order p of their positions.
PayloadsIn(chunks, p) == JoinChunks([k \in 1..Len(chunks) |-> chunks[p[k]]], 1)

\* Every chunk has a range with a start.
AllHaveStart(chunks) == \A k \in 1..Len(chunks) : chunks[k].range.kind = "start"

\* A chunk has no range, or a range without start.
LacksStart(chunk) == chunk.range.kind \in {"none", "nostart"}

\* C11: for a snapshot whose chunks all have a range.start, the extracted
\* text is the payloads joined in ascending order of range.start, chunks of
\* one start in input order, whatever the order of the input.
C11_JoinedByAscendingStart ==
  (snapshot.kind = "chunked" /\ AllHaveStart(snapshot.chunks)) =>
    \A res \in ExtractionResults :
      \A p \in Orders(1..Len(snapshot.chunks)) :
        AscendingStable(snapshot.chunks, [k \in 1..Len(snapshot.chunks) |-> snapshot.chunks[k].range.start], p)
          => res = SomeText(PayloadsIn(snapshot.chunks, p))

\* Both extractions have put two chunks given in descending order of start
\* back in ascending order.
C11_Witness ==
  /\ ran = {"extract_files", "extract_file"}
  /\ snapshot.kind = "chunked"
  /\ Len(snapshot.chunks) = 2
  /\ AllHaveStart(snapshot.chunks)
  /\ snapshot.chunks[1].range.start > snapshot.chunks[2].range.start
  /\ snapshot.chunks[1].has_chunk /\ snapshot.chunks[2].has_chunk
  /\ snapshot.chunks[1].chunk # snapshot.chunks[2].chunk
  /\ swift_code = SomeText(snapshot.chunks[2].chunk \o snapshot.chunks[1].chunk)
  /\ output_file = swift_code

\* C12 as stated: when a chunk has no range or no start, the extraction
\* does not raise and joins the payloads in the order of the input.
C12_InputOrderWhenStartMissing ==
  (snapshot.kind = "chunked" /\ \E k \in 1..Len(snapshot.chunks) : LacksStart(snapshot.chunks[k])) =>
    \A res \in ExtractionResults : res = SomeText(JoinChunks(snapshot.chunks, 1))

\* The start of a chunk, 0 for a chunk without one.
StartOrZero(chunks) ==
  [k \in 1..Len(chunks) |-> IF chunks[k].range.kind = "start" THEN chunks[k].range.start ELSE 0]

\* C12 as amended: when a chunk has no range or no start, the extraction
\* does not raise; the chunk is sorted as a chunk of start 0, so the
\* payloads are joined in ascending order of start with a missing start
\* counted as 0 (chunks of one start in input order), and chunks are
\* reordered.  The order of the input is kept only when the sort raises,
\* which it does for a range that is null.
C12_MissingStartSortsAsZero ==
  (snapshot.kind = "chunked" /\ \E k \in 1..Len(snapshot.chunks) : LacksStart(snapshot.chunks[k])) =>
    \A res \in ExtractionResults :
      IF \E k \in 1..Len(snapshot.chunks) : snapshot.chunks[k].range.kind = "null"
      THEN res = SomeText(JoinChunks(snapshot.chunks, 1))
      ELSE \A p \in Orders(1..Len(snapshot.chunks)) :
             AscendingStable(snapshot.chunks, StartOrZero(snapshot.chunks), p)
               => res = SomeText(PayloadsIn(snapshot.chunks, p))

\* A chunk with a start above 0 followed by a chunk without range: both
\* extractions have put the second chunk's payload first.
C12_Witness ==
  /\ ran = {"extract_files", "extract_file"}
  /\ snapshot.kind = "chunked"
  /\ Len(snapshot.chunks) = 2
  /\ snapshot.chunks[1].range.kind = "start"
  /\ snapshot.chunks[1].range.start > 0
  /\ snapshot.chunks[2].range.kind = "none"
  /\ snapshot.chunks[1].has_chunk /\ snapshot.chunks[2].has_chunk
  /\ snapshot.chunks[1].chunk # snapshot.chunks[2].chunk
  /\ swift_code = SomeText(snapshot.chunks[2].chunk \o snapshot.chunks[1].chunk)
  /\ output_file = swift_code

\* The snapshot file holds no JSON value.
NotJson(raw) == raw.kind = "text" /\ ~IsJsonString(raw.chars)

\* C13: every extraction yields a text, and for a snapshot file that holds
\* no JSON value the text is the file's content, unchanged.
C13_RecoveryIsTotal ==
  \A res \in ExtractionResults :
    /\ res.ok
    /\ NotJson(snapshot) => res.text = snapshot.chars

----------------------------------------------------------------------------
(* Properties of the scan of compare_code_files.py.                        *)

\* collect_swift_files has returned.
Collected == cpc \in {"collected", "grouped", "classified", "duplicates_written", "reported"}

\* The files under the roots that are directories whose hashing does not
\* raise.
HashableFiles == {x \in FilesOf(disk) : x[1] \in roots /\ x \notin unhashable}

\* The record of a file: its path relative to its own root, its location,
\* its absolute path and the digest of its bytes.
RecordOf(x) == <<x[2], x[1], AbsPath(x[1], x[2]), compute_sha256(disk[x])>>

\* C14: collect_swift_files returns, whatever roots are missing and whatever
\* file cannot be hashed, and its records are exactly one record for every
\* hashable matching file under an existing root, with the path relative to
\* the file's own root.
C14_RecordsAreHashableFiles ==
  /\ cpc = "scan" => ENABLED MainCollect
  /\ Collected =>
       /\ {records[k] : k \in 1..Len(records)} = {RecordOf(x) : x \in HashableFiles}
       /\ Len(records) = Cardinality(HashableFiles)

\* The scan has passed a missing root that is configured before an existing
\* one, and has recorded a file of a location that holds an unhashable file.
C14_Witness ==
  /\ Collected
  /\ \E a, b \in 1..Len(LOCATIONS) :
       a < b /\ LOCATIONS[a] \notin roots /\ LOCATIONS[b] \in roots
  /\ \E u \in unhashable : \E k \in 1..Len(records) : records[k][2] = u[1]

----------------------------------------------------------------------------
(* Properties of get_output_path.                                          *)

\* The checks in their priority order: what one of them looks for, and the
\* bucket it gives.
Rules ==
  << [any |-> {<<"View", "Model">>, <<"Model">>}, bucket |-> "ViewModels"],
     [any |-> {<<"View">>, <<"Screen">>}, bucket |-> "Views"],
     [any |-> {<<"App">>}, bucket |-> "App"],
     [any |-> {<<"Auth">>}, bucket |-> "Authentication"],
     [any |-> {<<"Manager">>, <<"Service">>, <<"State">>}, bucket |-> "Services"] >>

\* The k-th check matches the file name.
RuleMatches(k) == \E x \in Rules[k].any : Contains(filename, x)

\* The file name has been classified.
Classified == output_path # NoPath

\* C16: the bucket is that of the first check, in the priority order, that
\* matches the file name, and Utils when none matches; a name with
\* ViewModel and View goes to ViewModels, a name with Manager to Services
\* exactly when no earlier check matches.
C16_FirstMatchWins ==
  Classified =>
    /\ output_path[1] = output_base /\ output_path[3] = filename
    /\ \/ \E k \in 1..Len(Rules) :
            /\ RuleMatches(k)
            /\ \A j \in 1..(k - 1) : ~RuleMatches(j)
            /\ output_path[2] = Rules[k].bucket
       \/ /\ \A j \in 1..Len(Rules) : ~RuleMatches(j)
          /\ output_path[2] = "Utils"
    /\ (Contains(filename, <<"View", "Model">>) /\ Contains(filename, <<"View">>))
         => output_path[2] = "ViewModels"
    /\ Contains(filename, <<"Manager">>)
         => (output_path[2] = "Services" <=> \A j \in 1..4 : ~RuleMatches(j))

\* AuthViewModel.swift, which three checks match, has gone to ViewModels.
C16_Witness ==
  /\ filename = <<"Auth", "View", "Model">>
  /\ output_path = <<output_base, "ViewModels", filename>>

----------------------------------------------------------------------------
(* Properties of find_latest_backup.                                       *)

\* find_latest_backup has returned.
Searched == wanted # ""

\* The snapshot files of all directories that match the file name.
AllMatches == {x \in SnapshotFiles : x[2] = wanted /\ cache[x] # Absent}

\* C17: find_latest_backup returns None only when no directory holds a
\* match, and otherwise a match whose mtime is the greatest of all matches
\* in all directories.
C17_NewestOfAllDirectories ==
  Searched =>
    /\ latest = None <=> AllMatches = {}
    /\ latest # None =>
         /\ latest \in AllMatches
         /\ \A y \in AllMatches : cache[latest] >= cache[y]

----------------------------------------------------------------------------
(* Properties of compare_and_merge.py.                                     *)

\* The messages that tell the user of an error.
ErrorMessages ==
  {"Invalid choice", "Invalid file number", "Invalid input", "Invalid location numbers",
   "Invalid tool choice", "Invalid source location", "Invalid destination location",
   "Invalid location", "Error"}

\* The line is one of the numbers from low to high.
NumberIn(line, low, high) == IsInt(line) /\ line.n >= low /\ line.n <= high

\* The line read in this step is invalid at the prompt it was typed at: an
\* unknown menu choice, a file or location number that is no number or out
\* of range, an unknown tool, or a destination that is the source.
InvalidInput ==
  \/ mpc = "menu" /\ ~NumberIn(typed'[1], 1, 6)
  \/ mpc = "cmp_file" /\ ~NumberIn(typed'[1], 1, Len(file_list))
  \/ mpc \in {"copy_file", "open_file"} /\ ~NumberIn(typed'[1], 1, Len(csv_file.rows))
  \/ mpc = "bulk_file" /\ ~NumberIn(typed'[1], 0, Len(critical_files))
  \/ mpc = "cmp_locs" /\ \E k \in 1..Len(typed') : ~NumberIn(typed'[k], 1, Len(locations))
  \/ mpc \in {"copy_src", "open_loc"} /\ ~NumberIn(typed'[1], 1, Len(locations))
  \/ mpc = "copy_dst" /\ (~NumberIn(typed'[1], 1, Len(locations)) \/ locations[typed'[1].n] = src_name)
  \/ mpc \in {"cmp_tool", "bulk_tool"} /\ ~NumberIn(typed'[1], 1, 3)

\* C15: after an invalid line at any prompt an error message is printed and
\* the menu is shown again, and the loop ends only on choice 6.
C15_InvalidInputReported ==
  [][ /\ InvalidInput => (mpc' = "menu" /\ printed' \cap ErrorMessages # {})
      /\ (mpc' = "exited" /\ mpc # "exited") => (mpc = "menu" /\ typed' = <<Numeral(6)>>) ]_vars

\* C18: load_file_list ends without an exception and returns the rows of
\* file_comparison_list.csv, after at most one run of the generator.
C18_LoadsAfterOneRun ==
  /\ mpc # "RecursionError"
  /\ runs <= 1
  /\ (mpc = "menu" /\ typed = <<>>) => (csv_file.exists /\ file_list = csv_file.rows)

====
